---- MODULE Spec2Model ----
(***************************************************************************)
(* SelfieStick.ino: a tilt sensor, debounced by a low pass with            *)
(* hysteresis (isTilted), drives a five-state sequencer (shotCycle) that   *)
(* lights the LEDs one by one, pulses the relais and pauses; loop() calls  *)
(* shotCycle while tilted and reset() otherwise.                           *)
(*                                                                         *)
(* Numbers.  Times are milliseconds.  The filter constants are written in  *)
(* tenths (LOW_PASS = 5 is 0.5f).  tiltLevel is a binary fraction: the     *)
(* integer tiltLevel stands for tiltLevel / LevelScale, and the float      *)
(* addition is rounded to the nearest representable value, ties to even.   *)
(***************************************************************************)
EXTENDS Integers, FiniteSets

\* ------------------------------------------------------------- constants
\* pins are identities only: the relais is `relay`, LED_PINS[i] is leds[i]
LED_COUNT == 3
BLINK_SEQUENCE == 1500
AFTER_LAST_LED == 500
RELAIS_TRIGGER_TIME == 20
PAUSE_AFTER_SHOT == 5000
LOW_PASS == 5
THRESHOLD_HIGH == 7
THRESHOLD_LOW == 3
\* delay(10) at the end of loop
LoopDelay == 10

\* --------------------------------------------------------------- bounds
\* the clock is observed up to MaxTime ms after boot
MaxTime == 9520
\* fractional bits kept of the float tiltLevel
LevelBits == 2
\* bits kept of the unsigned long millisecond arithmetic (32 on the target);
\* 2 ^ ClockBits exceeds MaxTime, so the clock does not wrap in these runs
ClockBits == 14

LevelScale == 2 ^ LevelBits
ClockModulus == 2 ^ ClockBits

\* The instants at which loop() may run: the multiples of AFTER_LAST_LED
\* (every timing but the pulse is one) and those one relais pulse later, so
\* that a loop can fall on, before and after every instant a step is due;
\* and MidPulse, one delay(10) into the pulse of the earliest cycle (the
\* second loop, at RELAIS_TRIGGER_TIME, is the first that can find the stick
\* tilted), so that a loop can find the relais energized and its time not up.
MidPulse ==
  RELAIS_TRIGGER_TIME + (LED_COUNT - 1) * BLINK_SEQUENCE + AFTER_LAST_LED
    + LoopDelay
Instants ==
  {t \in {k * AFTER_LAST_LED + o : k \in 0..(MaxTime \div AFTER_LAST_LED),
                                   o \in {0, RELAIS_TRIGGER_TIME}} :
     t <= MaxTime} \cup {MidPulse}

States == {"WAIT_FOR_LIFT", "BLINK_LEDS", "TRIGGER_SHOT", "SHOT_DONE", "PAUSE"}

\* the configuration as shipped (lines 24-35)
SourceConfig ==
  [ledCount |-> LED_COUNT, lowPass |-> LOW_PASS,
   thresholdHigh |-> THRESHOLD_HIGH, thresholdLow |-> THRESHOLD_LOW]

VARIABLES
  cfg,        \* LED_COUNT, LOW_PASS, THRESHOLD_HIGH, THRESHOLD_LOW of the build
  pc,         \* "setup", "first" (setup has returned), "loop" (loop has run)
  clock,      \* the time of the last loop, in ms since boot; 0 before the
              \* first
  state,      \* enum States
  ledIndex,   \* static int ledIndex of shotCycle
  timer,      \* static unsigned long timer of shotCycle
  leds,       \* output level of LED_PINS[i]
  relay,      \* output level of RELAIS_PIN
  tilted,     \* static boolean tilted of isTilted
  tiltLevel,  \* static float tiltLevel of isTilted
  \* history of the run, read by the properties only
  wrote,      \* digitalWrite has been called
  lastRaw,    \* the last digitalRead(TILT_PIN): 0, 1, or -1 before the first
  fromState,  \* state at the start of the last loop
  cycleStart, \* clock of the shotCycle call that left WAIT_FOR_LIFT for the
              \* cycle run since without a release; -1 when there is none
              \* or when that cycle is both late and missed
  phaseAt,    \* clock of the last step of the cycle in progress, or -1
  late,       \* a step of that cycle was taken after it was due
  missed,     \* no loop ran at one of the cycle's NamedOffsets
  released,   \* isTilted returned false at some loop since cycleStart
  shotEnd,    \* clock of the last SHOT_DONE -> PAUSE step, while less than
              \* PAUSE_AFTER_SHOT before the last loop, or -1
  overdue     \* at the last loop shotCycle was called so late that the step
              \* after the one due had had its time as well

vars == <<cfg, pc, clock, state, ledIndex, timer, leds, relay, tilted, tiltLevel,
          wrote, lastRaw, fromState, cycleStart, phaseAt, late, missed,
          released, shotEnd, overdue>>

\* ---------------------------------------------------------------- isTilted
\* n / d rounded to the nearest integer, ties to even (d > 0)
RoundHalfEven(n, d) ==
  LET q == n \div d
      r == n % d
  IN  IF 2 * r < d THEN q
      ELSE IF 2 * r > d THEN q + 1
      ELSE IF q % 2 = 0 THEN q ELSE q + 1

\* tiltLevel += (newTilt - tiltLevel) * LOW_PASS
LowPassStep(level, newTilt) ==
  RoundHalfEven(10 * level + (newTilt * LevelScale - level) * cfg.lowPass, 10)

\* > in place of >=
AboveHigh(level) == 10 * level > cfg.thresholdHigh * LevelScale

\* tiltLevel >= THRESHOLD_HIGH and tiltLevel <= THRESHOLD_LOW
AtLeastHigh(level) == 10 * level >= cfg.thresholdHigh * LevelScale
AtMostLow(level) == 10 * level <= cfg.thresholdLow * LevelScale

\* a single threshold in both directions
HysteresisOneThreshold(t, level) ==
  IF (~t /\ AtLeastHigh(level)) \/ (t /\ ~AtLeastHigh(level)) THEN ~t ELSE t

\* the value of tilted after the if of lines 93-98
Hysteresis(t, level) ==
  IF (~t /\ AtLeastHigh(level)) \/ (t /\ AtMostLow(level)) THEN ~t ELSE t

IsTilted(raw) ==
  /\ tiltLevel' = LowPassStep(tiltLevel, raw)
  /\ tilted' = Hysteresis(tilted, tiltLevel')
  /\ lastRaw' = raw

\* ------------------------------------------------------------ the outputs
AllLow(L) == [i \in DOMAIN L |-> FALSE]

\* digitalWrite(LED_PINS[i], v): the <<leds, relay>> it can leave.  Reading
\* LED_PINS past its end yields an arbitrary pin number: the write then hits
\* the relais, one of the LEDs, or a pin that drives neither.
WriteLed(L, R, i, v) ==
  IF i \in DOMAIN L
  THEN {<<[L EXCEPT ![i] = v], R>>}
  ELSE {<<L, R>>, <<L, v>>} \cup {<<[L EXCEPT ![j] = v], R>> : j \in DOMAIN L}

\* reset that forgets the relais
ResetKeepsRelay(s, newState) ==
  [state |-> newState, leds |-> AllLow(s.leds), relay |-> s.relay]

\* reset whose loop stops one LED short
ResetSkipsLastLed(s, newState) ==
  [state |-> newState,
   leds |-> [i \in DOMAIN s.leds |->
               IF i < cfg.ledCount - 1 THEN FALSE ELSE s.leds[i]],
   relay |-> FALSE]

\* reset(newState) on the outputs and the state
Reset(s, newState) ==
  [state |-> newState, leds |-> AllLow(s.leds), relay |-> FALSE]

Outputs == [state |-> state, leds |-> leds, relay |-> relay]

\* millis() at the instant t: an unsigned long
Millis(t) == t % ClockModulus

\* now - timer in signed arithmetic of unbounded width
ElapsedSigned(now, tm) == now - tm

\* now - timer in unsigned arithmetic
Elapsed(now, tm) == (now - tm) % ClockModulus

\* ----------------------------------------------------------- shotCycle
\* > in place of >= in the test of the elapsed time
TimeUpStrict(now, d) == Elapsed(now, timer) > d

\* now - timer >= d, the test of lines 122, 136, 146 and 155
TimeUp(now, d) == Elapsed(now, timer) >= d

\* WAIT_FOR_LIFT without ledIndex = 0: the countdown goes on where the
\* last one stopped
WaitForLiftKeepsIndex(now) ==
  \E out \in WriteLed(leds, relay, ledIndex, TRUE) :
    /\ ledIndex' = ledIndex + 1
    /\ timer' = now
    /\ leds' = out[1]
    /\ relay' = out[2]
    /\ state' = "BLINK_LEDS"
    /\ wrote' = TRUE

\* case WAIT_FOR_LIFT, lines 112-117
WaitForLift(now) ==
  \E out \in WriteLed(leds, relay, 0, TRUE) :
    /\ ledIndex' = 1
    /\ timer' = now
    /\ leds' = out[1]
    /\ relay' = out[2]
    /\ state' = "BLINK_LEDS"
    /\ wrote' = TRUE

\* BLINK_LEDS comparing ledIndex with LED_COUNT before the increment
BlinkLedsTestsFirst(now) ==
  IF TimeUp(now, BLINK_SEQUENCE)
  THEN \E out \in WriteLed(leds, relay, ledIndex, TRUE) :
         /\ timer' = now
         /\ leds' = out[1]
         /\ relay' = out[2]
         /\ ledIndex' = ledIndex + 1
         /\ state' = IF ledIndex = cfg.ledCount
                     THEN "TRIGGER_SHOT" ELSE "BLINK_LEDS"
         /\ wrote' = TRUE
  ELSE UNCHANGED <<state, ledIndex, timer, leds, relay, wrote>>

\* BLINK_LEDS without timer = now: the intervals count from the first LED
BlinkLedsKeepsTimer(now) ==
  IF TimeUp(now, BLINK_SEQUENCE)
  THEN \E out \in WriteLed(leds, relay, ledIndex, TRUE) :
         /\ leds' = out[1]
         /\ relay' = out[2]
         /\ ledIndex' = ledIndex + 1
         /\ state' = IF ledIndex + 1 = cfg.ledCount
                     THEN "TRIGGER_SHOT" ELSE "BLINK_LEDS"
         /\ wrote' = TRUE
         /\ UNCHANGED timer
  ELSE UNCHANGED <<state, ledIndex, timer, leds, relay, wrote>>

\* BLINK_LEDS catching up: a call two intervals late lights two LEDs
BlinkLedsCatchesUp(now) ==
  IF TimeUp(now, 2 * BLINK_SEQUENCE) /\ ledIndex + 2 <= cfg.ledCount
  THEN /\ timer' = now
       /\ leds' = [i \in DOMAIN leds |->
                     leds[i] \/ i \in {ledIndex, ledIndex + 1}]
       /\ ledIndex' = ledIndex + 2
       /\ state' = IF ledIndex + 2 = cfg.ledCount
                   THEN "TRIGGER_SHOT" ELSE "BLINK_LEDS"
       /\ wrote' = TRUE
       /\ UNCHANGED relay
  ELSE IF TimeUp(now, BLINK_SEQUENCE)
  THEN \E out \in WriteLed(leds, relay, ledIndex, TRUE) :
         /\ timer' = now
         /\ leds' = out[1]
         /\ relay' = out[2]
         /\ ledIndex' = ledIndex + 1
         /\ state' = IF ledIndex + 1 = cfg.ledCount
                     THEN "TRIGGER_SHOT" ELSE "BLINK_LEDS"
         /\ wrote' = TRUE
  ELSE UNCHANGED <<state, ledIndex, timer, leds, relay, wrote>>

\* case BLINK_LEDS, lines 120-131
BlinkLeds(now) ==
  IF TimeUp(now, BLINK_SEQUENCE)
  THEN \E out \in WriteLed(leds, relay, ledIndex, TRUE) :
         /\ timer' = now
         /\ leds' = out[1]
         /\ relay' = out[2]
         /\ ledIndex' = ledIndex + 1
         /\ state' = IF ledIndex + 1 = cfg.ledCount
                     THEN "TRIGGER_SHOT" ELSE "BLINK_LEDS"
         /\ wrote' = TRUE
  ELSE UNCHANGED <<state, ledIndex, timer, leds, relay, wrote>>

\* TRIGGER_SHOT waiting RELAIS_TRIGGER_TIME instead of AFTER_LAST_LED
TriggerShotWrongDelay(now) ==
  IF TimeUp(now, RELAIS_TRIGGER_TIME)
  THEN /\ timer' = now
       /\ relay' = TRUE
       /\ state' = "SHOT_DONE"
       /\ wrote' = TRUE
       /\ UNCHANGED <<ledIndex, leds>>
  ELSE UNCHANGED <<state, ledIndex, timer, leds, relay, wrote>>

\* case TRIGGER_SHOT, lines 134-141
TriggerShot(now) ==
  IF TimeUp(now, AFTER_LAST_LED)
  THEN /\ timer' = now
       /\ relay' = TRUE
       /\ state' = "SHOT_DONE"
       /\ wrote' = TRUE
       /\ UNCHANGED <<ledIndex, leds>>
  ELSE UNCHANGED <<state, ledIndex, timer, leds, relay, wrote>>

\* SHOT_DONE without timer = now: the pause counts from the relais going on
ShotDoneKeepsTimer(now) ==
  IF TimeUp(now, RELAIS_TRIGGER_TIME)
  THEN /\ state' = Reset(Outputs, "PAUSE").state
       /\ leds' = Reset(Outputs, "PAUSE").leds
       /\ relay' = Reset(Outputs, "PAUSE").relay
       /\ wrote' = TRUE
       /\ UNCHANGED <<ledIndex, timer>>
  ELSE UNCHANGED <<state, ledIndex, timer, leds, relay, wrote>>

\* SHOT_DONE switching off the relais only
ShotDoneRelayOnly(now) ==
  IF TimeUp(now, RELAIS_TRIGGER_TIME)
  THEN /\ timer' = now
       /\ state' = "PAUSE"
       /\ relay' = FALSE
       /\ wrote' = TRUE
       /\ UNCHANGED <<ledIndex, leds>>
  ELSE UNCHANGED <<state, ledIndex, timer, leds, relay, wrote>>

\* SHOT_DONE without the test of the pulse width
ShotDoneAtOnce(now) ==
  /\ timer' = now
  /\ state' = Reset(Outputs, "PAUSE").state
  /\ leds' = Reset(Outputs, "PAUSE").leds
  /\ relay' = Reset(Outputs, "PAUSE").relay
  /\ wrote' = TRUE
  /\ UNCHANGED ledIndex

\* case SHOT_DONE, lines 144-150
ShotDone(now) ==
  IF TimeUp(now, RELAIS_TRIGGER_TIME)
  THEN /\ timer' = now
       /\ state' = Reset(Outputs, "PAUSE").state
       /\ leds' = Reset(Outputs, "PAUSE").leds
       /\ relay' = Reset(Outputs, "PAUSE").relay
       /\ wrote' = TRUE
       /\ UNCHANGED ledIndex
  ELSE UNCHANGED <<state, ledIndex, timer, leds, relay, wrote>>

\* PAUSE that only a reset ends
PauseWaitsForRelease(now) ==
  UNCHANGED <<state, ledIndex, timer, leds, relay, wrote>>

\* PAUSE restarting its timer at every call that finds the time not up
PauseRestartsTimer(now) ==
  IF TimeUp(now, PAUSE_AFTER_SHOT)
  THEN /\ state' = "WAIT_FOR_LIFT"
       /\ UNCHANGED <<ledIndex, timer, leds, relay, wrote>>
  ELSE /\ timer' = now
       /\ UNCHANGED <<state, ledIndex, leds, relay, wrote>>

\* case PAUSE, lines 153-158
Pause(now) ==
  IF TimeUp(now, PAUSE_AFTER_SHOT)
  THEN /\ state' = "WAIT_FOR_LIFT"
       /\ UNCHANGED <<ledIndex, timer, leds, relay, wrote>>
  ELSE UNCHANGED <<state, ledIndex, timer, leds, relay, wrote>>

\* the switch of lines 109-159, with millis() = now
ShotCycle(now) ==
  CASE state = "WAIT_FOR_LIFT" -> WaitForLift(now)
    [] state = "BLINK_LEDS" -> BlinkLeds(now)
    [] state = "TRIGGER_SHOT" -> TriggerShot(now)
    [] state = "SHOT_DONE" -> ShotDone(now)
    [] state = "PAUSE" -> Pause(now)

\* ------------------------------------------------- history of the run
\* how long each state lasts before its step is due
Due(s) ==
  CASE s = "BLINK_LEDS" -> BLINK_SEQUENCE
    [] s = "TRIGGER_SHOT" -> AFTER_LAST_LED
    [] s = "SHOT_DONE" -> RELAIS_TRIGGER_TIME
    [] s = "PAUSE" -> PAUSE_AFTER_SHOT
    [] OTHER -> 0

\* the offsets from the start of a cycle at which a cycle without delay
\* steps: the LEDs after the first, the relais on, the relais off, idle
LastLedOffset == (LED_COUNT - 1) * BLINK_SEQUENCE
RelayOnOffset == LastLedOffset + AFTER_LAST_LED
RelayOffOffset == RelayOnOffset + RELAIS_TRIGGER_TIME
IdleOffset == RelayOffOffset + PAUSE_AFTER_SHOT
NamedOffsets ==
  {k * BLINK_SEQUENCE : k \in 0..(LED_COUNT - 1)}
    \cup {RelayOnOffset, RelayOffOffset, IdleOffset}

\* the state and ledIndex that follow <<s, k>> in a cycle
Successor(s, k) ==
  CASE s = "WAIT_FOR_LIFT" -> <<"BLINK_LEDS", 1>>
    [] s = "BLINK_LEDS" ->
         <<IF k + 1 = cfg.ledCount THEN "TRIGGER_SHOT" ELSE "BLINK_LEDS",
           k + 1>>
    [] s = "TRIGGER_SHOT" -> <<"SHOT_DONE", k>>
    [] s = "SHOT_DONE" -> <<"PAUSE", k>>
    [] s = "PAUSE" -> <<"WAIT_FOR_LIFT", k>>

\* shotEnd after a loop at time now that ends no shot
Cooling(now) ==
  IF shotEnd # -1 /\ now - shotEnd >= PAUSE_AFTER_SHOT THEN -1 ELSE shotEnd

\* the history across a call of shotCycle at time now
TrackShotCycle(now) ==
  LET stepped == <<state', ledIndex'>> # <<state, ledIndex>>
      fresh == state = "WAIT_FOR_LIFT"
      nowLate == late \/ (stepped /\ now - phaseAt > Due(state))
      nowMissed ==
        \/ missed
        \/ \E o \in NamedOffsets : clock - cycleStart < o /\ o < now - cycleStart
  IN  /\ late' = IF fresh THEN FALSE ELSE nowLate
      /\ missed' = IF fresh THEN FALSE ELSE nowMissed
      /\ cycleStart' = IF fresh THEN now
                       ELSE IF nowLate /\ nowMissed THEN -1 ELSE cycleStart
      /\ phaseAt' = IF state' = "WAIT_FOR_LIFT" THEN -1
                    ELSE IF stepped THEN now ELSE phaseAt
      /\ released' = IF fresh THEN FALSE ELSE released
      /\ shotEnd' = IF state = "SHOT_DONE" /\ state' = "PAUSE"
                    THEN now ELSE Cooling(now)
      /\ overdue' = /\ ~fresh
                    /\ now - phaseAt >=
                         Due(state) + Due(Successor(state, ledIndex)[1])

\* the history across a loop at time now in which isTilted returned false
TrackRelease(now) ==
  /\ cycleStart' = -1
  /\ missed' = FALSE
  /\ phaseAt' = -1
  /\ late' = FALSE
  /\ released' = TRUE
  /\ shotEnd' = Cooling(now)
  /\ overdue' = FALSE

\* ------------------------------------------------------- setup and loop
Setup ==
  /\ pc = "setup"
  /\ state' = "WAIT_FOR_LIFT"
  /\ pc' = "first"
  /\ UNCHANGED <<cfg, clock, ledIndex, timer, leds, relay, tilted, tiltLevel,
                 wrote, lastRaw, fromState, cycleStart, phaseAt, late, missed,
                 released, shotEnd, overdue>>

\* loop() is entered at time now: right after setup, or once the delay(10)
\* that ended the previous loop (line 81) has passed
EnterLoop(now) ==
  /\ pc \in {"first", "loop"}
  /\ now - clock >= (IF pc = "first" THEN 0 ELSE LoopDelay)
  /\ clock' = now
  /\ pc' = "loop"
  /\ fromState' = state
  /\ UNCHANGED cfg

\* loop, lines 71-73: isTilted() is true
LoopShotCycle(raw, now) ==
  /\ EnterLoop(now)
  /\ IsTilted(raw)
  /\ tilted'
  /\ ShotCycle(Millis(now))
  /\ TrackShotCycle(now)

\* loop, lines 76-78: not tilted and state != WAIT_FOR_LIFT
LoopReset(raw, now) ==
  /\ EnterLoop(now)
  /\ IsTilted(raw)
  /\ ~tilted'
  /\ state # "WAIT_FOR_LIFT"
  /\ state' = Reset(Outputs, "WAIT_FOR_LIFT").state
  /\ leds' = Reset(Outputs, "WAIT_FOR_LIFT").leds
  /\ relay' = Reset(Outputs, "WAIT_FOR_LIFT").relay
  /\ wrote' = TRUE
  /\ UNCHANGED <<ledIndex, timer>>
  /\ TrackRelease(now)

\* loop: not tilted and already in WAIT_FOR_LIFT, nothing is called
LoopSkip(raw, now) ==
  /\ EnterLoop(now)
  /\ IsTilted(raw)
  /\ ~tilted'
  /\ state = "WAIT_FOR_LIFT"
  /\ UNCHANGED <<state, ledIndex, timer, leds, relay, wrote>>
  /\ TrackRelease(now)

\* the state at power-up, for a build with configuration c
InitWith(c) ==
  /\ cfg = c
  /\ pc = "setup"
  /\ clock = 0
  /\ state = "WAIT_FOR_LIFT"
  /\ ledIndex = 0
  /\ timer = 0
  /\ leds = [i \in 0..(c.ledCount - 1) |-> FALSE]
  /\ relay = FALSE
  /\ tilted = FALSE
  /\ tiltLevel = 0
  /\ wrote = FALSE
  /\ lastRaw = -1
  /\ fromState = "WAIT_FOR_LIFT"
  /\ cycleStart = -1
  /\ phaseAt = -1
  /\ late = FALSE
  /\ missed = FALSE
  /\ released = FALSE
  /\ shotEnd = -1
  /\ overdue = FALSE

Init == InitWith(SourceConfig)

Next ==
  \/ Setup
  \/ \E raw \in {0, 1}, now \in Instants : LoopShotCycle(raw, now)
  \/ \E raw \in {0, 1}, now \in Instants : LoopReset(raw, now)
  \/ \E raw \in {0, 1}, now \in Instants : LoopSkip(raw, now)

Spec == Init /\ [][Next]_vars

\* Builds with the filter switched off (LOW_PASS = 1.0, line 33) and other
\* thresholds, 0 < THRESHOLD_LOW < THRESHOLD_HIGH <= 1
ThresholdChoices == {THRESHOLD_LOW, THRESHOLD_HIGH, 10}
NoFilterConfigs ==
  {[SourceConfig EXCEPT !.lowPass = 10, !.thresholdLow = l, !.thresholdHigh = h] :
     <<l, h>> \in {p \in ThresholdChoices \X ThresholdChoices : p[1] < p[2]}}

SpecNoFilter == (\E c \in NoFilterConfigs : InitWith(c)) /\ [][Next]_vars

\* Builds whose constants break the constraints noted at lines 34-35, or
\* with an empty LED_PINS
BadConfigs ==
  {[SourceConfig EXCEPT !.ledCount = 0]}
    \cup {[SourceConfig EXCEPT !.thresholdLow = l, !.thresholdHigh = h] :
            <<l, h>> \in {<<THRESHOLD_HIGH, THRESHOLD_LOW>>, <<5, 5>>}}

SpecBadConfig == (\E c \in BadConfigs : InitWith(c)) /\ [][Next]_vars

\* Builds with fewer LEDs: LED_PINS[] = {4} and LED_PINS[] = {4, 5}
LedCountConfigs ==
  {[SourceConfig EXCEPT !.ledCount = n] : n \in 1..(LED_COUNT - 1)}

SpecLedCounts == (\E c \in LedCountConfigs : InitWith(c)) /\ [][Next]_vars

\* The runs in which millis() overflows: a first loop at boot, the next ones
\* from WrapLead ms before the last multiple of AFTER_LAST_LED that the
\* clock can hold (the stick lies idle in between).  The pause, the longest
\* state, can begin before the overflow and end after it.
WrapLead == PAUSE_AFTER_SHOT
WrapInstants ==
  {0} \cup
    {(ClockModulus \div AFTER_LAST_LED) * AFTER_LAST_LED - WrapLead + t :
       t \in Instants}

WrapNext ==
  \/ Setup
  \/ \E raw \in {0, 1}, now \in WrapInstants : LoopShotCycle(raw, now)
  \/ \E raw \in {0, 1}, now \in WrapInstants : LoopReset(raw, now)
  \/ \E raw \in {0, 1}, now \in WrapInstants : LoopSkip(raw, now)

WrapSpec == Init /\ [][WrapNext]_vars

\* The runs in which the sensor stays closed for ever.  Such a run has no
\* end, so the clock is kept as millis() reads it, modulo ClockModulus, and
\* the history is not kept.  The loops come one of LoopPeriods after the
\* other: powers of two, for the clock to come back to the values it had.
LoopPeriods == {2 ^ (ClockBits - 6), 2 ^ (ClockBits - 5)}

\* one loop(), lines 70-82, period ms after the one before, reading 1
HeldLoop(period) ==
  LET now == Millis(clock + period)
  IN  /\ pc \in {"first", "loop"}
      /\ period >= LoopDelay
      /\ clock' = now
      /\ pc' = "loop"
      /\ fromState' = state
      /\ IsTilted(1)
      /\ IF tilted'
         THEN ShotCycle(now)
         ELSE IF state # "WAIT_FOR_LIFT"
         THEN /\ state' = Reset(Outputs, "WAIT_FOR_LIFT").state
              /\ leds' = Reset(Outputs, "WAIT_FOR_LIFT").leds
              /\ relay' = Reset(Outputs, "WAIT_FOR_LIFT").relay
              /\ wrote' = TRUE
              /\ UNCHANGED <<ledIndex, timer>>
         ELSE UNCHANGED <<state, ledIndex, timer, leds, relay, wrote>>
      /\ UNCHANGED <<cfg, cycleStart, phaseAt, late, missed, released,
                     shotEnd, overdue>>

RepeatNext ==
  \/ Setup
  \/ \E period \in LoopPeriods : HeldLoop(period)

\* main() calls setup() once and then loop() for ever
RepeatSpec == Init /\ [][RepeatNext]_vars /\ WF_vars(RepeatNext)

\* The runs in which the tilt, once detected, is not lost before the cycle
\* is over: loop never takes the branch of lines 76-78.
HeldNext ==
  \/ Setup
  \/ \E raw \in {0, 1}, now \in Instants : LoopShotCycle(raw, now)
  \/ \E raw \in {0, 1}, now \in Instants : LoopSkip(raw, now)

\* main() calls setup() once and then loop() for ever
LiveSpec == Init /\ [][HeldNext]_vars /\ WF_vars(HeldNext)

\* ===================================================================
\* Properties
\* ===================================================================
NoLedLit == \A i \in DOMAIN leds : ~leds[i]
AllLedsLit == \A i \in DOMAIN leds : leds[i]

\* every state and output level reset can be called with
AllOutputs ==
  [state : States, leds : [DOMAIN leds -> BOOLEAN], relay : BOOLEAN]

IdleAllOff ==
  [state |-> "WAIT_FOR_LIFT", leds |-> [i \in DOMAIN leds |-> FALSE],
   relay |-> FALSE]

\* C1: a loop in which isTilted returns false ends in WAIT_FOR_LIFT with the
\* relais and every LED off, whatever the state and the outputs were; and
\* reset() alone does so from every state and every output level.
C1_ReleaseEndsIdleAllOff ==
  /\ (pc = "loop" /\ ~tilted) =>
       (state = "WAIT_FOR_LIFT" /\ ~relay /\ NoLedLit)
  /\ \A s \in AllOutputs : Reset(s, "WAIT_FOR_LIFT") = IdleAllOff

\* the tilt was lost while the relais was energized
C1_Witness ==
  pc = "loop" /\ ~tilted /\ fromState = "SHOT_DONE" /\ state = "WAIT_FOR_LIFT"

\* C9: reset() called twice in a row leaves what one call leaves:
\* WAIT_FOR_LIFT, relais off, every LED off.
C9_ResetIdempotent ==
  \A s \in AllOutputs \cup {Outputs} :
    LET once == Reset(s, "WAIT_FOR_LIFT")
        twice == Reset(once, "WAIT_FOR_LIFT")
    IN  twice = once /\ once = IdleAllOff

\* reset() has just run with every LED lit
C9_Witness ==
  pc = "loop" /\ ~tilted /\ fromState = "TRIGGER_SHOT" /\ Outputs = IdleAllOff

\* C7: a sample turns tilted on only with the new tiltLevel >= THRESHOLD_HIGH,
\* turns it off only with the new tiltLevel <= THRESHOLD_LOW, and leaves it
\* alone while the new tiltLevel lies strictly between the two.
C7_Hysteresis ==
  [][ LET lo == cfg.thresholdLow * LevelScale
          hi == cfg.thresholdHigh * LevelScale
          lv == 10 * tiltLevel'
      IN  /\ (~tilted /\ tilted') => lv >= hi
          /\ (tilted /\ ~tilted') => lv <= lo
          /\ (lo < lv /\ lv < hi) => (tilted' = tilted) ]_vars

\* tilted is held with tiltLevel inside the band
C7_Witness ==
  /\ tilted
  /\ cfg.thresholdLow * LevelScale < 10 * tiltLevel
  /\ 10 * tiltLevel < cfg.thresholdHigh * LevelScale

\* C2: once a shot has ended (SHOT_DONE -> PAUSE), no LED is lit and the
\* relais is not energized until PAUSE_AFTER_SHOT ms have passed since.
C2_NoOutputBeforePauseIsOver ==
  shotEnd # -1 => (~relay /\ NoLedLit)

\* C3: the relais goes on only in the step TRIGGER_SHOT -> SHOT_DONE, with
\* every one of the LED_COUNT LEDs lit, isTilted true at every loop since the
\* cycle left WAIT_FOR_LIFT, and AFTER_LAST_LED ms or more after the last LED
\* was lit.
C3_RelayOnlyAfterCountdown ==
  [][ (~relay /\ relay') =>
        /\ state = "TRIGGER_SHOT" /\ state' = "SHOT_DONE"
        /\ DOMAIN leds' = 0..(cfg.ledCount - 1)
        /\ \A i \in DOMAIN leds' : leds'[i]
        /\ tilted' /\ ~released'
        /\ phaseAt # -1
        /\ clock' - phaseAt >= AFTER_LAST_LED ]_vars

\* the relais is energized
C3_Witness == relay /\ state = "SHOT_DONE" /\ AllLedsLit

\* what a cycle that started e ms ago and was called at every one of its
\* NamedOffsets up to now shows after the loop at e
OnTimeView(e) ==
  /\ \A k \in DOMAIN leds :
       leds[k] <=> (k * BLINK_SEQUENCE <= e /\ e < RelayOffOffset)
  /\ relay <=> (RelayOnOffset <= e /\ e < RelayOffOffset)
  /\ e < LastLedOffset =>
       (state = "BLINK_LEDS" /\ ledIndex = (e \div BLINK_SEQUENCE) + 1)
  /\ (LastLedOffset <= e /\ e < RelayOnOffset) =>
       (state = "TRIGGER_SHOT" /\ ledIndex = LED_COUNT)
  /\ (RelayOnOffset <= e /\ e < RelayOffOffset) => state = "SHOT_DONE"
  /\ (RelayOffOffset <= e /\ e < IdleOffset) => state = "PAUSE"
  /\ e >= IdleOffset => (e = IdleOffset /\ state = "WAIT_FOR_LIFT")

\* C4: with the tilt held and shotCycle called at every named instant, LED k
\* is lit at k * BLINK_SEQUENCE after the start (ledIndex = k + 1), the call
\* lighting the last LED enters TRIGGER_SHOT, the relais goes on
\* AFTER_LAST_LED later, relais and LEDs go off RELAIS_TRIGGER_TIME later and
\* WAIT_FOR_LIFT is re-entered PAUSE_AFTER_SHOT later: 0, 1500, 3000, 3500,
\* 3520, 8520 ms.
C4_OnTimeSchedule ==
  /\ NamedOffsets = {0, 1500, 3000, 3500, 3520, 8520}
  /\ (pc = "loop" /\ tilted /\ cycleStart # -1 /\ ~missed) =>
       OnTimeView(clock - cycleStart)

\* a whole cycle called at every named instant
C4_Witness ==
  /\ pc = "loop" /\ tilted /\ cycleStart # -1 /\ ~missed
  /\ clock - cycleStart = IdleOffset
  /\ state = "WAIT_FOR_LIFT" /\ fromState = "PAUSE"

\* the loop that has just run took a cycle, no step of which was late, from
\* PAUSE back to WAIT_FOR_LIFT
CycleJustCompleted ==
  /\ pc = "loop" /\ tilted
  /\ fromState = "PAUSE" /\ state = "WAIT_FOR_LIFT"
  /\ cycleStart # -1 /\ ~late

\* C5 as stated: a cycle called at every transition instant takes
\* LED_COUNT * BLINK_SEQUENCE + AFTER_LAST_LED + RELAIS_TRIGGER_TIME +
\* PAUSE_AFTER_SHOT ms from the call leaving WAIT_FOR_LIFT to the call
\* re-entering it.
C5_CycleTimeAsStated ==
  CycleJustCompleted =>
    clock - cycleStart = LED_COUNT * BLINK_SEQUENCE + AFTER_LAST_LED
                           + RELAIS_TRIGGER_TIME + PAUSE_AFTER_SHOT

\* C5 amended: the first LED is lit at once, so only LED_COUNT - 1 intervals
\* pass: (LED_COUNT - 1) * BLINK_SEQUENCE + AFTER_LAST_LED +
\* RELAIS_TRIGGER_TIME + PAUSE_AFTER_SHOT ms.
C5_CycleTime ==
  CycleJustCompleted =>
    clock - cycleStart = (LED_COUNT - 1) * BLINK_SEQUENCE + AFTER_LAST_LED
                           + RELAIS_TRIGGER_TIME + PAUSE_AFTER_SHOT

\* a cycle without a late step has come back to WAIT_FOR_LIFT, all off
C5_Witness == CycleJustCompleted /\ ~relay /\ NoLedLit

\* the last instant the clock is observed at
LastInstant == CHOOSE t \in Instants : \A u \in Instants : u <= t

\* a loop has found the step of the current state not due yet, and a later
\* loop can run when it is
StepPending ==
  /\ pc = "loop" /\ tilted
  /\ state # "WAIT_FOR_LIFT"
  /\ phaseAt < clock
  /\ clock < LastInstant
  /\ phaseAt + Due(state) <= LastInstant

\* C6: while isTilted stays true and loops keep coming, the sequencer leaves
\* every state for the next one, in the order WAIT_FOR_LIFT, BLINK_LEDS (one
\* LED after the other), TRIGGER_SHOT, SHOT_DONE, PAUSE, WAIT_FOR_LIFT, and is
\* back in WAIT_FOR_LIFT with the relais and every LED off; it stays in no
\* state for ever.
C6_CycleCompletes ==
  /\ [][ tilted' =>
           /\ <<state', ledIndex'>> \in
                {<<state, ledIndex>>, Successor(state, ledIndex)}
           /\ state = "WAIT_FOR_LIFT" => state' = "BLINK_LEDS"
           /\ state' = "WAIT_FOR_LIFT" => (~relay' /\ \A i \in DOMAIN leds' : ~leds'[i])
       ]_vars
  /\ StepPending ~> (~tilted \/ phaseAt = clock \/ state = "WAIT_FOR_LIFT")

\* a cycle has run through PAUSE back to WAIT_FOR_LIFT with the tilt held
C6_Witness ==
  /\ pc = "loop" /\ tilted /\ ~released
  /\ fromState = "PAUSE" /\ state = "WAIT_FOR_LIFT"
  /\ ~relay /\ NoLedLit

\* C8: with LOW_PASS = 1.0 and 0 < THRESHOLD_LOW < THRESHOLD_HIGH <= 1,
\* isTilted returns the raw sample of the same call, at every call; the
\* first sample read as 1 makes it true at once.
C8_NoFilterFollowsRaw ==
  ( /\ cfg.lowPass = 10
    /\ 0 < cfg.thresholdLow /\ cfg.thresholdLow < cfg.thresholdHigh
    /\ cfg.thresholdHigh <= 10
    /\ pc = "loop" )
  => (tilted <=> lastRaw = 1)

\* the first loop after setup has read 1, with THRESHOLD_HIGH = 1.0
C8_Witness ==
  /\ cfg.lowPass = 10 /\ cfg.thresholdHigh = 10
  /\ pc = "loop" /\ clock = 0 /\ lastRaw = 1 /\ tilted
  /\ state = "BLINK_LEDS"

\* the configuration breaks a constraint
ConfigViolated(c) == c.thresholdLow >= c.thresholdHigh \/ c.ledCount = 0

\* C10: with THRESHOLD_LOW >= THRESHOLD_HIGH or no LED the program is
\* rejected at initialization: loop never runs and there is no write to an
\* LED or to the relais.
C10_BadConfigRejected ==
  ConfigViolated(cfg) => (pc # "loop" /\ ~wrote)

\* C11: one call of shotCycle takes at most one step, however late it comes:
\* the state stays or becomes the one that follows it in the cycle, and at
\* most one LED goes on.
C11_AtMostOneStep ==
  [][ tilted' =>
        /\ state' \in {state, Successor(state, ledIndex)[1]}
        /\ ledIndex' \in {ledIndex, Successor(state, ledIndex)[2]}
        /\ Cardinality({i \in DOMAIN leds : ~leds[i] /\ leds'[i]}) <= 1 ]_vars

\* a call in BLINK_LEDS two intervals or more after LED 0 has lit LED 1 only
C11_Witness ==
  /\ pc = "loop" /\ tilted /\ overdue
  /\ fromState = "BLINK_LEDS" /\ state = "BLINK_LEDS"
  /\ ledIndex = 2 /\ leds[1] /\ ~leds[2]

\* C12: in BLINK_LEDS, TRIGGER_SHOT, SHOT_DONE and PAUSE a call of shotCycle
\* with now - timer below the duration of the state changes neither the
\* state, nor ledIndex, nor timer, nor the relais, nor any LED.
C12_NotDueIsNoOp ==
  [][ ( /\ tilted'
        /\ state # "WAIT_FOR_LIFT"
        /\ Elapsed(Millis(clock'), timer) < Due(state) )
      => UNCHANGED <<state, ledIndex, timer, relay, leds>> ]_vars

\* a call has found the relais energized for less than RELAIS_TRIGGER_TIME
C12_Witness ==
  /\ pc = "loop" /\ tilted
  /\ fromState = "SHOT_DONE" /\ state = "SHOT_DONE" /\ relay
  /\ phaseAt # -1 /\ phaseAt < clock
  /\ clock - phaseAt < RELAIS_TRIGGER_TIME

\* C13: for every LED_COUNT >= 1, ledIndex stays within 0..LED_COUNT, so
\* that every LED written, LED_PINS[ledIndex - 1], is one of the LED_COUNT
\* LEDs, and BLINK_LEDS has been left only with ledIndex = LED_COUNT.
C13_LedIndexInRange ==
  /\ ledIndex \in 0..cfg.ledCount
  /\ state \in {"TRIGGER_SHOT", "SHOT_DONE"} => ledIndex = cfg.ledCount

\* C14: however late or rare the loops, with the tilt held no timed step is
\* taken early: the next LED is lit BLINK_SEQUENCE or more after the one
\* before, the relais goes on AFTER_LAST_LED or more after the last LED and
\* off RELAIS_TRIGGER_TIME or more after it went on, and PAUSE is left
\* PAUSE_AFTER_SHOT or more after it was entered; a loop that comes late
\* takes the step that was due, and nothing else.
C14_NoEarlyStep ==
  [][ (tilted' /\ state # "WAIT_FOR_LIFT") =>
        LET waited == clock' - phaseAt
            stepped == <<state', ledIndex'>> # <<state, ledIndex>>
        IN  /\ phaseAt # -1
            /\ stepped => waited >= Due(state)
            /\ waited >= Due(state) =>
                 /\ <<state', ledIndex'>> = Successor(state, ledIndex)
                 /\ phaseAt' \in {clock', -1} ]_vars

\* the loop after the one that energized the relais came later than the
\* whole pause: the relais went off, PAUSE has just begun
C14_Witness ==
  /\ pc = "loop" /\ tilted /\ overdue
  /\ fromState = "SHOT_DONE" /\ state = "PAUSE" /\ ~relay
  /\ shotEnd = clock

\* C15: every call of shotCycle in WAIT_FOR_LIFT (after setup, after a reset
\* from any state, after a pause that has run out) lights LED 0 and no other,
\* sets ledIndex = 1 and timer = millis() and enters BLINK_LEDS, whatever
\* ledIndex and timer were left at.
C15_CountdownStartsFresh ==
  [][ (tilted' /\ state = "WAIT_FOR_LIFT") =>
        /\ state' = "BLINK_LEDS"
        /\ ledIndex' = 1
        /\ timer' = Millis(clock')
        /\ leds' = [i \in 0..(cfg.ledCount - 1) |-> i = 0]
        /\ ~relay' ]_vars

\* a countdown has begun less than PAUSE_AFTER_SHOT after a shot: the tilt
\* was lost in PAUSE, which left ledIndex = LED_COUNT and the timer of the shot
C15_Witness ==
  /\ pc = "loop" /\ tilted
  /\ fromState = "WAIT_FOR_LIFT" /\ state = "BLINK_LEDS"
  /\ shotEnd # -1 /\ shotEnd < clock
  /\ ledIndex = 1 /\ timer = Millis(clock)

\* C16: after every loop the outputs are what state and ledIndex say: in
\* WAIT_FOR_LIFT and PAUSE the relais and every LED are off; in BLINK_LEDS
\* the LEDs 0..ledIndex-1 are lit, the others and the relais off; in
\* TRIGGER_SHOT every LED is lit and the relais off; in SHOT_DONE every LED
\* is lit and the relais on.  The relais is on exactly in SHOT_DONE.
C16_OutputsFollowState ==
  /\ state \in {"WAIT_FOR_LIFT", "PAUSE"} => (~relay /\ NoLedLit)
  /\ state = "BLINK_LEDS" =>
       (~relay /\ \A i \in DOMAIN leds : leds[i] <=> i < ledIndex)
  /\ state = "TRIGGER_SHOT" => (~relay /\ AllLedsLit)
  /\ state = "SHOT_DONE" => (relay /\ AllLedsLit)
  /\ relay <=> state = "SHOT_DONE"

\* half way through the countdown: two LEDs lit, the last one dark
C16_Witness ==
  /\ pc = "loop" /\ state = "BLINK_LEDS" /\ ledIndex = LED_COUNT - 1
  /\ \A i \in DOMAIN leds : leds[i] <=> i < LED_COUNT - 1
  /\ ~relay

\* C17: the relais, once on, goes off in the first loop in which isTilted is
\* false or RELAIS_TRIGGER_TIME ms or more have passed since it went on;
\* after any loop that leaves it on, isTilted was true and less than
\* RELAIS_TRIGGER_TIME ms have passed since it went on.
C17_PulseBounded ==
  /\ [](( pc = "loop" /\ relay ) =>
          /\ tilted /\ state = "SHOT_DONE"
          /\ phaseAt # -1 /\ clock - phaseAt < RELAIS_TRIGGER_TIME)
  /\ [][ ( /\ relay
           /\ ~tilted' \/ clock' - phaseAt >= RELAIS_TRIGGER_TIME )
         => ~relay' ]_vars

\* the pulse has lasted RELAIS_TRIGGER_TIME exactly: the loop that came then
\* has switched the relais off
C17_Witness ==
  /\ pc = "loop" /\ tilted
  /\ fromState = "SHOT_DONE" /\ state = "PAUSE" /\ ~relay
  /\ shotEnd = clock /\ cycleStart # -1 /\ ~late
  /\ clock - cycleStart = RelayOffOffset

\* C19: timer and millis() being unsigned words of ClockBits bits, the
\* now - timer that shotCycle computes is the time that has really passed
\* since timer was written, as long as that is less than 2 ^ ClockBits, also
\* when millis() has overflowed in between; so an overflow during a state
\* neither takes its step early nor holds it back.
C19_WrapKeepsElapsed ==
  [][ ( /\ tilted'
        /\ state # "WAIT_FOR_LIFT"
        /\ phaseAt # -1
        /\ clock' - phaseAt < ClockModulus )
      => /\ timer = Millis(phaseAt)
         /\ Elapsed(Millis(clock'), timer) = clock' - phaseAt
         /\ (<<state', ledIndex'>> # <<state, ledIndex>>)
              <=> (clock' - phaseAt >= Due(state)) ]_vars

\* the relais has gone on after the overflow, AFTER_LAST_LED after the last
\* LED, which was lit before the overflow
C19_Witness ==
  /\ pc = "loop" /\ tilted /\ state = "SHOT_DONE" /\ relay
  /\ phaseAt = clock /\ cycleStart # -1 /\ ~late
  /\ clock >= ClockModulus
  /\ clock - AFTER_LAST_LED < ClockModulus
  /\ timer = clock - ClockModulus

\* C18: while isTilted stays true, the call of shotCycle that follows the one
\* leaving PAUSE for WAIT_FOR_LIFT lights LED 0 and begins a new countdown,
\* no release being needed; with the sensor closed for ever the relais goes
\* on again and again, and off again each time.
C18_AutomaticRepeat ==
  /\ [][ (tilted /\ tilted' /\ state = "WAIT_FOR_LIFT") =>
           (state' = "BLINK_LEDS" /\ leds'[0] /\ ledIndex' = 1) ]_vars
  /\ <>[]tilted
  /\ []<>relay
  /\ []<>(state = "WAIT_FOR_LIFT" /\ fromState = "PAUSE")

\* a countdown has begun in the loop after the one that ended a pause,
\* isTilted having been true ever since the second loop
C18_Witness ==
  /\ pc = "loop" /\ tilted
  /\ fromState = "WAIT_FOR_LIFT" /\ state = "BLINK_LEDS"
  /\ ledIndex = 1 /\ leds[0] /\ ~relay
  /\ clock >= IdleOffset

====
